---- MODULE Spec2Model ----
(***************************************************************************)
(* The APM tracker's event store (apm_tracker.c): the ring buffer          *)
(* event_buffer / event_count / event_index, the rate calculation over it, *)
(* and the binary data file written by save_data and read by load_data.    *)
(*                                                                         *)
(* Time is the wall clock in seconds; the modelled clock moves in steps of *)
(* half a minute so that a record can lie exactly on, inside or outside a  *)
(* window's cutoff.  MAX_EVENTS is scaled down from 7*24*60*60.            *)
(***************************************************************************)
EXTENDS Integers, Sequences, FiniteSets, TLC

\* ---------------------------------------------------------------- bounds
\* slots of the ring, scaled down from 7 * 24 * 60 * 60
MAX_EVENTS == 2
\* largest window, in minutes, asked of calculate_apm
MaxWindow == 2
\* the clock takes the values 0, 30, ..., MaxTicks * 30: one more instant
\* than the ring has slots
MaxTicks == MAX_EVENTS
\* add_event calls counted since the store was last (re)initialised
MaxAdds == MAX_EVENTS + 2
\* longest body of a data file found on disk at start: one more than fits
MaxFileLen == MAX_EVENTS + 1
\* width of int / uint32_t, scaled down
IntBits == 4
\* the most input devices find_input_devices opens (MAX_DEVICES is 32)
MaxDevices == 1

\* ------------------------------------------------------- program constants
MAGIC == 4276545
VERSION == 1
SecondsPerMinute == 60
\* "if (now - last_save >= 300)"
SAVE_INTERVAL == 300

HalfMinute == SecondsPerMinute \div 2
Instants == {k * HalfMinute : k \in 0..MaxTicks}
\* reference times of a rate query: before, at and after the clock's last value
RefTimes == {HalfMinute, MaxTicks * HalfMinute, (MaxTicks + 1) * HalfMinute}
Windows == 1..MaxWindow
Slots == 0..(MAX_EVENTS - 1)
\* content of a slot of the malloc'ed buffer that was never written
UNINIT == -1
\* the null pointer: an array of no slots
NULL == <<>>
BadMagic == MAGIC + 1
BadVersion == VERSION + 1

Min(a, b) == IF a < b THEN a ELSE b

VARIABLES
  event_buffer,   \* NULL, or the array of MAX_EVENTS timestamps
  event_count,
  event_index,
  file,           \* DATA_FILE on disk
  clock,          \* the last value time(NULL) returned
  last,           \* the last call and what it returned (observation only)
  hist,           \* how the store was built since it was last (re)initialised
  saved,          \* the store's view at the last complete save of the file now on disk
  pc,             \* where main is
  running,        \* the flag the signal handler clears
  num_input_fds,  \* open input devices
  last_save,      \* main's local: time of the last periodic save
  daemon_mode,    \* started with -d
  shut            \* how the main loop ended and what cleanup did (observation only)

mainvars == <<pc, running, num_input_fds, last_save, daemon_mode, shut>>
vars == <<event_buffer, event_count, event_index, file, clock, last, hist, saved,
          pc, running, num_input_fds, last_save, daemon_mode, shut>>
store == <<event_buffer, event_count, event_index>>

\* ------------------------------------------------------------ the data file
NoFile == [exists |-> FALSE, hdr |-> FALSE, magic |-> 0, version |-> 0,
           num_events |-> 0, body |-> <<>>]

\* fopen(DATA_FILE, "wb") succeeded and nothing was written yet
EmptyFile == [exists |-> TRUE, hdr |-> FALSE, magic |-> 0, version |-> 0,
              num_events |-> 0, body |-> <<>>]

DataFile(m, v, n, b) == [exists |-> TRUE, hdr |-> TRUE, magic |-> m, version |-> v,
                         num_events |-> n, body |-> b]

\* uint32_t -> int, as "int to_read = header.num_events" converts it
ToInt(u) == IF u >= 2^(IntBits - 1) THEN u - 2^IntBits ELSE u


\* ------------------------------------------------------------- add_event
\* event_buffer[event_index].timestamp = now.  A cursor outside the array
\* (event_index = MAX_EVENTS) writes past the malloc'ed block: no slot of
\* the array changes.
write_slot(buf, idx, now) ==
  IF idx \in Slots THEN [buf EXCEPT ![idx] = now] ELSE buf

\* the cursor advanced without the wrap
next_index_nowrap(idx) == idx + 1
next_index(idx) == (idx + 1) % MAX_EVENTS

\* the count raised without the test against MAX_EVENTS
next_count_nocap(cnt) == cnt + 1
next_count(cnt) == IF cnt < MAX_EVENTS THEN cnt + 1 ELSE cnt

\* what the write through event_index can do
AddOutcomes(idx) == IF idx \in Slots THEN {"stored"} ELSE {"outside", "crash"}

\* ------------------------------------------------ calculate_apm_with_time
apm_cutoff(minutes, current_time) == current_time - (minutes * SecondsPerMinute)

\* the comparison with the cutoff left out of the window
in_window_exclusive(ts, cutoff) == ts > cutoff
in_window(ts, cutoff) == ts >= cutoff

\* a scan that starts at the cursor whatever the length
apm_slots_ring(cnt, idx) ==
  [i \in 1..Min(cnt, MAX_EVENTS) |-> (idx + (i - 1)) % MAX_EVENTS]
\* the slots the counting loop visits, in order
apm_slots(cnt, idx) ==
  IF cnt <= MAX_EVENTS
  THEN [i \in 1..cnt |-> i - 1]
  ELSE [i \in 1..MAX_EVENTS |->
          (idx - MAX_EVENTS + (i - 1) + MAX_EVENTS) % MAX_EVENTS]

RECURSIVE apm_scan(_, _, _, _, _)
apm_scan(visit, k, buf, cutoff, count) ==
  IF k > Len(visit) THEN count
  ELSE apm_scan(visit, k + 1, buf, cutoff,
                IF in_window(buf[visit[k]], cutoff) THEN count + 1 ELSE count)

\* the float (float)count / minutes, kept as the exact quotient <<count, minutes>>
Ratio(num, den) == <<num, den>>
RatioEq(a, b) == a[1] * b[2] = b[1] * a[2]
Zero == Ratio(0, 1)

\* the function without its test for an empty store, scanning the whole ring
calculate_apm_whole_ring(buf, cnt, idx, minutes, current_time) ==
  [val  |-> Ratio(Cardinality({i \in Slots : buf[i] >= apm_cutoff(minutes, current_time)}),
                  minutes),
   read |-> Slots]

\* result and the set of slots read
calculate_apm_with_time(buf, cnt, idx, minutes, current_time) ==
  IF cnt = 0 \/ buf = NULL
  THEN [val |-> Zero, read |-> {}]
  ELSE LET visit == apm_slots(cnt, idx)
       IN [val  |-> Ratio(apm_scan(visit, 1, buf, apm_cutoff(minutes, current_time), 0),
                          minutes),
           read |-> {visit[k] : k \in 1..Len(visit)}]

\* -------------------------------------------------------------- save_data
\* a walk that starts at the cursor instead of cnt slots before it
SaveIdx_from_cursor(i, cnt, idx) == (idx + i) % MAX_EVENTS
SaveIdx(i, cnt, idx) == (idx - cnt + i + MAX_EVENTS) % MAX_EVENTS

\* the write loop; fwrite fails in iteration failat (none when failat < 0)
RECURSIVE save_loop(_, _, _, _, _, _)
save_loop(i, buf, cnt, idx, failat, out) ==
  IF i < cnt /\ i < MAX_EVENTS
  THEN IF i = failat THEN out
       ELSE save_loop(i + 1, buf, cnt, idx, failat,
                      Append(out, buf[SaveIdx(i, cnt, idx)]))
  ELSE out

\* the order in which save_data walks the buffer
ChronView(buf, cnt, idx) ==
  IF buf = NULL THEN <<>> ELSE save_loop(0, buf, cnt, idx, -1, <<>>)

\* the test at the head of save_data without the one on event_count
nothing_to_save_null_only(buf, cnt) == buf = NULL
\* "if (event_buffer == NULL || event_count == 0) return"
nothing_to_save(buf, cnt) == buf = NULL \/ cnt = 0

\* the file opened for appending instead of being truncated
fopen_ab(f) == IF f.exists THEN f ELSE EmptyFile
fopen_wb(f) == EmptyFile

write_header(f, n) == DataFile(MAGIC, VERSION, n, f.body)
write_events(f, entries) == [f EXCEPT !.body = f.body \o entries]

\* how a call of save_data on a non-empty store can end: at is the
\* iteration whose fwrite fails
Outcome(kind, at) == [kind |-> kind, at |-> at]
SaveOutcomes(f, cnt) ==
  {Outcome(k, -1) : k \in {"ok", "open_fail", "header_fail"}}
    \cup (IF f.exists THEN {} ELSE {Outcome("mkdir_fail", -1)})
    \cup {Outcome("event_fail", k) : k \in 0..(Min(cnt, MAX_EVENTS) - 1)}

save_file(f, buf, cnt, idx, io) ==
  IF io.kind \in {"mkdir_fail", "open_fail"} THEN f
  ELSE IF io.kind = "header_fail" THEN fopen_wb(f)
  ELSE write_events(write_header(fopen_wb(f), cnt),
                    save_loop(0, buf, cnt, idx, io.at, <<>>))

\* -------------------------------------------------------------- load_data
\* the header tests without the one on the version
header_check_magic_only(f) ==
  IF ~f.exists THEN "no_file"
  ELSE IF ~f.hdr THEN "short_header"
  ELSE IF f.magic # MAGIC THEN "bad_magic"
  ELSE "ok"

\* fopen, fread of the header and the two header tests
header_check(f) ==
  IF ~f.exists THEN "no_file"
  ELSE IF ~f.hdr THEN "short_header"
  ELSE IF f.magic # MAGIC THEN "bad_magic"
  ELSE IF f.version # VERSION THEN "bad_version"
  ELSE "ok"

\* a limit one below the capacity
to_read_of_short(num_events) ==
  LET n == ToInt(num_events) IN IF n > MAX_EVENTS - 1 THEN MAX_EVENTS - 1 ELSE n
to_read_of(num_events) ==
  LET n == ToInt(num_events) IN IF n > MAX_EVENTS THEN MAX_EVENTS ELSE n

\* malloc(to_read * sizeof(EventData)): a negative to_read converts to a
\* size above PTRDIFF_MAX, which no malloc grants; any other request may
\* be refused too
MallocOutcomes(to_read) == IF to_read < 0 THEN {FALSE} ELSE {TRUE, FALSE}

\* a read loop that stores nothing when an entry is missing
RECURSIVE read_loop_strict(_, _, _, _)
read_loop_strict(i, to_read, body, temp) ==
  IF i < to_read
  THEN IF i + 1 > Len(body) THEN <<>>
       ELSE read_loop_strict(i + 1, to_read, body, Append(temp, body[i + 1]))
  ELSE temp

\* the read loop: temp_buffer[0 .. events_read-1]
RECURSIVE read_loop(_, _, _, _)
read_loop(i, to_read, body, temp) ==
  IF i < to_read
  THEN IF i + 1 > Len(body) THEN temp
       ELSE read_loop(i + 1, to_read, body, Append(temp, body[i + 1]))
  ELSE temp

\* a copy that leaves the cursor at 0
copy_events_cursor0(temp, buf) ==
  [buf |-> [j \in Slots |-> IF j < Len(temp) THEN temp[j + 1] ELSE buf[j]],
   cnt |-> Len(temp),
   idx |-> 0]

\* the copy of temp_buffer into the ring: buffer, count and cursor
copy_events(temp, buf) ==
  LET events_read == Len(temp) IN
  IF events_read <= MAX_EVENTS
  THEN [buf |-> [j \in Slots |-> IF j < events_read THEN temp[j + 1] ELSE buf[j]],
        cnt |-> events_read,
        idx |-> events_read]
  ELSE [buf |-> [j \in Slots |-> temp[(events_read - MAX_EVENTS) + j + 1]],
        cnt |-> MAX_EVENTS,
        idx |-> 0]

\* a load that empties the store when there is no file
on_no_file_reset(buf, cnt, idx) == [buf |-> buf, cnt |-> 0, idx |-> 0]
\* the early returns of load_data leave the globals alone
on_no_file(buf, cnt, idx) == [buf |-> buf, cnt |-> cnt, idx |-> idx]

\* a load that leaves the store alone when it read no entry
load_result_keeps_on_empty(f, buf, cnt, idx, malloc_ok) ==
  LET same == [buf |-> buf, cnt |-> cnt, idx |-> idx]
      chk  == header_check(f)
      temp == read_loop(0, to_read_of(f.num_events), f.body, <<>>)
  IN IF buf = NULL THEN [res |-> "no_buffer", st |-> same, want |-> 0]
     ELSE IF chk = "no_file"
          THEN [res |-> chk, st |-> on_no_file(buf, cnt, idx), want |-> 0]
     ELSE IF chk # "ok" THEN [res |-> chk, st |-> same, want |-> 0]
     ELSE IF ~malloc_ok THEN [res |-> "no_memory", st |-> same, want |-> 0]
     ELSE [res |-> "loaded",
           st  |-> IF temp = <<>> THEN same ELSE copy_events(temp, buf),
           want |-> to_read_of(f.num_events)]

\* the store after load_data, how the call ended, and the number of
\* entries its read loop was set to read (0 when the loop is not reached)
load_result(f, buf, cnt, idx, malloc_ok) ==
  LET same == [buf |-> buf, cnt |-> cnt, idx |-> idx]
      chk  == header_check(f)
  IN IF buf = NULL THEN [res |-> "no_buffer", st |-> same, want |-> 0]
     ELSE IF chk = "no_file"
          THEN [res |-> chk, st |-> on_no_file(buf, cnt, idx), want |-> 0]
     ELSE IF chk # "ok" THEN [res |-> chk, st |-> same, want |-> 0]
     ELSE IF ~malloc_ok THEN [res |-> "no_memory", st |-> same, want |-> 0]
     ELSE [res |-> "loaded",
           st  |-> copy_events(read_loop(0, to_read_of(f.num_events), f.body, <<>>), buf),
           want |-> to_read_of(f.num_events)]

\* ------------------------------------------------------- apm_stats (main)
\* malloc(header.num_events * sizeof(EventData)): the count stays unsigned
StatsMallocOutcomes == {TRUE, FALSE}

\* how the statistics utility ends on the data file f
apm_stats_read(f, malloc_ok) ==
  IF ~f.exists THEN "cannot_open"
  ELSE IF ~f.hdr THEN "cannot_read_header"
  ELSE IF f.magic # MAGIC THEN "invalid_format"
  ELSE IF ~malloc_ok THEN "cannot_allocate"
  ELSE IF Len(f.body) < f.num_events THEN "cannot_read_events"
  ELSE "ok"

\* the comparison with the cutoff left out of the window
stats_in_window_exclusive(ts, cutoff) == ts > cutoff
stats_in_window(ts, cutoff) == ts >= cutoff

RECURSIVE stats_scan(_, _, _, _, _)
stats_scan(events, i, count, cutoff, action_count) ==
  IF i > count THEN action_count
  ELSE stats_scan(events, i + 1, count, cutoff,
                  IF stats_in_window(events[i], cutoff)
                  THEN action_count + 1 ELSE action_count)

\* the rate over the events read from the file, at the time now of the call
calculate_apm_from_data(events, count, minutes, now) ==
  IF count = 0 THEN Zero
  ELSE Ratio(stats_scan(events, 1, count, now - (minutes * SecondsPerMinute), 0),
             minutes)

\* the events array after fread of num_events entries
stats_events(f) == SubSeq(f.body, 1, f.num_events)


\* ------------------------------------------------------- the state machine
\* timestamps found in a data file left on disk by an earlier run
FileTimes == {0, HalfMinute}

RECURSIVE SeqsUpTo(_, _)
SeqsUpTo(S, n) ==
  IF n = 0 THEN {<<>>}
  ELSE LET shorter == SeqsUpTo(S, n - 1)
       IN shorter \cup {Append(q, x) : q \in {r \in shorter : Len(r) = n - 1}, x \in S}

\* declared counts that do not fit int: the smallest and the largest
HugeCounts == {2^(IntBits - 1), 2^IntBits - 1}

\* the data file when the tracker starts: none, one cut before the end of
\* its header, a well-formed header declaring n entries over a body of at
\* most n, a header declaring more than int holds, or a foreign header
InitFiles ==
  {NoFile, EmptyFile}
    \cup {DataFile(MAGIC, VERSION, nb[1], nb[2]) :
            nb \in {x \in (0..MaxFileLen) \X SeqsUpTo(FileTimes, MaxFileLen) :
                      Len(x[2]) <= x[1]}}
    \cup {DataFile(MAGIC, VERSION, n, b) :
            n \in HugeCounts, b \in SeqsUpTo({HalfMinute}, 1)}
    \cup {DataFile(m, v, Len(b), b) :
            m \in {MAGIC, BadMagic}, v \in {VERSION, BadVersion},
            b \in SeqsUpTo({HalfMinute}, 1)}

FreshBuffer == [i \in Slots |-> UNINIT]
\* from_empty: only add_event wrote the store since it was created empty;
\* nadds: add_event calls since then (or since the load), counted up to MaxAdds;
\* strict: their timestamps were strictly increasing;
\* recent: the last MAX_EVENTS of these timestamps, oldest first;
\* held: the records handed to the store and not yet displaced by MAX_EVENTS
\* newer ones, oldest first: those a load copied in, in file order, then
\* each timestamp add_event was called with
NonDecreasing(q) == \A k \in 1..(Len(q) - 1) : q[k] <= q[k + 1]

FreshHist == [from_empty |-> TRUE, nadds |-> 0, strict |-> TRUE, recent |-> <<>>,
              held |-> <<>>, ordered |-> TRUE]
LoadedHist == [from_empty |-> FALSE, nadds |-> 0, strict |-> TRUE, recent |-> <<>>,
               held |-> <<>>, ordered |-> TRUE]

LastN(q, n) == IF Len(q) <= n THEN q ELSE SubSeq(q, Len(q) - n + 1, Len(q))
Recorded(h, now) ==
  [h EXCEPT !.nadds = Min(@ + 1, MaxAdds),
            !.strict = @ /\ (h.recent = <<>> \/ h.recent[Len(h.recent)] < now),
            !.recent = LastN(Append(@, now), MAX_EVENTS),
            !.held = LastN(Append(@, now), MAX_EVENTS)]
\* the rates calculate_apm_with_time gives on a store, for every window
\* and reference time of the model
RatesOf(buf, cnt, idx) ==
  [q \in Windows \X RefTimes |->
     calculate_apm_with_time(buf, cnt, idx, q[1], q[2]).val]
\* valid: the file on disk was written by a complete save, and cnt, view,
\* apm are the store's length, view and rates at that save; part: it was
\* written by a save that stopped in its write loop, and held are the
\* records the store held at that save
NotSaved == [valid |-> FALSE, part |-> FALSE, cnt |-> 0, view |-> <<>>,
             held |-> <<>>, apm |-> [q \in Windows \X RefTimes |-> Zero]]
SavedAs(kind, buf, cnt, idx, h) ==
  IF kind = "ok"
  THEN [NotSaved EXCEPT !.valid = TRUE, !.cnt = cnt,
                        !.view = ChronView(buf, cnt, idx),
                        !.apm = RatesOf(buf, cnt, idx)]
  ELSE [NotSaved EXCEPT !.part = TRUE, !.held = h.held]

\* stop: what cleared running first; why: how the main loop ended;
\* saves: calls of save_data made by cleanup; buf, fds: whether the buffer
\* was still allocated and how many devices were still open at that call;
\* loads: calls of load_data made by main; used: main has called add_event,
\* calculate_apm or save_data; diff: in the batch of input events being
\* processed, the calls of add_event less the events that are a key or
\* button going down (kept within -1..1); psaves: periodic saves
\* triggered, counted up to 2
NoShut == [stop |-> "none", why |-> "none", saves |-> 0, buf |-> FALSE, fds |-> 0,
           loads |-> 0, used |-> FALSE, diff |-> 0, psaves |-> 0]

\* the library driven call by call, as the test programs do: main is not running
NoMain ==
  /\ pc = "none"
  /\ running = 1
  /\ num_input_fds = 0
  /\ last_save = 0
  /\ daemon_mode = FALSE
  /\ shut = NoShut

Init ==
  /\ event_buffer = FreshBuffer
  /\ event_count = 0
  /\ event_index = 0
  /\ file \in InitFiles
  /\ clock = 0
  /\ last = [op |-> "start"]
  /\ hist = FreshHist
  /\ saved = NotSaved
  /\ NoMain

\* the process ends (exit or kill) and the tracker is started again: the
\* globals get their initial values and main allocates the buffer
main_start ==
  /\ event_buffer' = FreshBuffer
  /\ event_count' = 0
  /\ event_index' = 0
  /\ hist' = FreshHist
  /\ last' = [op |-> "start"]
  /\ UNCHANGED <<file, clock, saved>>

add_event ==
  /\ event_buffer # NULL
  /\ \E now \in {t \in Instants : t >= clock}, out \in AddOutcomes(event_index) :
       /\ clock' = now
       /\ last' = [op |-> "add", res |-> out]
       /\ IF out = "crash"
          THEN /\ event_buffer' = FreshBuffer
               /\ event_count' = 0
               /\ event_index' = 0
               /\ hist' = FreshHist
          ELSE /\ event_buffer' = write_slot(event_buffer, event_index, now)
               /\ event_index' = next_index(event_index)
               /\ event_count' = next_count(event_count)
               /\ hist' = Recorded(hist, now)
  /\ UNCHANGED <<file, saved>>

ApmCall(minutes, t) ==
  LET r == calculate_apm_with_time(event_buffer, event_count, event_index, minutes, t)
  IN [op |-> "apm", minutes |-> minutes, t |-> t, val |-> r.val, read |-> r.read]

\* calculate_apm(minutes), whose reference time is time(NULL), and the
\* direct calls of calculate_apm_with_time with a time of the caller's choice
calculate_apm ==
  /\ \E minutes \in Windows, t \in RefTimes : last' = ApmCall(minutes, t)
  /\ UNCHANGED <<event_buffer, event_count, event_index, file, clock, hist, saved>>

\* a save that empties the store once the file is written
save_data_resets ==
  /\ IF nothing_to_save(event_buffer, event_count)
     THEN /\ last' = [op |-> "save", res |-> "nothing", again |-> FALSE]
          /\ UNCHANGED <<file, saved, event_count, event_index>>
     ELSE \E io \in SaveOutcomes(file, event_count) :
            /\ file' = save_file(file, event_buffer, event_count, event_index, io)
            /\ saved' = IF io.kind \in {"ok", "event_fail"}
                        THEN SavedAs(io.kind, event_buffer, event_count,
                                     event_index, hist)
                        ELSE IF io.kind \in {"mkdir_fail", "open_fail"} THEN saved
                        ELSE NotSaved
            /\ last' = [op |-> "save", res |-> io.kind,
                        again |-> (last.op = "save" /\ last.res = "ok")]
            /\ event_count' = IF io.kind = "ok" THEN 0 ELSE event_count
            /\ event_index' = IF io.kind = "ok" THEN 0 ELSE event_index
  /\ UNCHANGED <<event_buffer, clock, hist>>

save_data ==
  /\ IF nothing_to_save(event_buffer, event_count)
     THEN /\ last' = [op |-> "save", res |-> "nothing", again |-> FALSE]
          /\ UNCHANGED <<file, saved>>
     ELSE \E io \in SaveOutcomes(file, event_count) :
            /\ file' = save_file(file, event_buffer, event_count, event_index, io)
            /\ saved' = IF io.kind \in {"ok", "event_fail"}
                        THEN SavedAs(io.kind, event_buffer, event_count,
                                     event_index, hist)
                        ELSE IF io.kind \in {"mkdir_fail", "open_fail"} THEN saved
                        ELSE NotSaved
            /\ last' = [op |-> "save", res |-> io.kind,
                        again |-> (last.op = "save" /\ last.res = "ok")]
  /\ UNCHANGED <<event_buffer, event_count, event_index, clock, hist>>

load_data ==
  /\ \E malloc_ok \in (IF header_check(file) = "ok"
                       THEN MallocOutcomes(to_read_of(file.num_events))
                       ELSE {TRUE}) :
       LET r == load_result(file, event_buffer, event_count, event_index, malloc_ok)
       IN /\ event_buffer' = r.st.buf
          /\ event_count' = r.st.cnt
          /\ event_index' = r.st.idx
          /\ last' = [op |-> "load", res |-> r.res, want |-> r.want]
          /\ hist' = IF r.res = "loaded"
                     THEN LET got == [k \in 1..r.st.cnt |-> r.st.buf[k - 1]]
                          IN [LoadedHist EXCEPT !.held = got,
                                                !.ordered =
                                                  /\ NonDecreasing(got)
                                                  /\ \A k \in 1..Len(got) :
                                                       got[k] <= clock]
                     ELSE hist
  /\ UNCHANGED <<file, clock, saved>>

\* one run of the statistics utility on the data file
apm_stats ==
  /\ \E malloc_ok \in StatsMallocOutcomes :
       LET res == apm_stats_read(file, malloc_ok)
       IN last' = [op |-> "stats", res |-> res,
                   rates |-> IF res = "ok"
                             THEN [w \in Windows |->
                                     calculate_apm_from_data(stats_events(file),
                                                             file.num_events, w, clock)]
                             ELSE <<>>]
  /\ UNCHANGED <<event_buffer, event_count, event_index, file, clock, hist, saved>>

\* a cleanup that leaves the pointer as it is after free
cleanup_no_null(buf) == buf
\* "free(event_buffer); event_buffer = NULL;"
cleanup_release(buf) == NULL

\* cleanup() as one call: save_data(), close and forget every descriptor,
\* free the buffer.  saved: save_data got past its first test; closed: the
\* descriptors closed; freed: free was called
cleanup ==
  /\ IF nothing_to_save(event_buffer, event_count)
     THEN /\ last' = [op |-> "cleanup", saved |-> FALSE, closed |-> num_input_fds,
                      freed |-> (event_buffer # NULL)]
          /\ UNCHANGED <<file, saved>>
     ELSE \E io \in SaveOutcomes(file, event_count) :
            /\ file' = save_file(file, event_buffer, event_count, event_index, io)
            /\ saved' = IF io.kind \in {"ok", "event_fail"}
                        THEN SavedAs(io.kind, event_buffer, event_count,
                                     event_index, hist)
                        ELSE IF io.kind \in {"mkdir_fail", "open_fail"} THEN saved
                        ELSE NotSaved
            /\ last' = [op |-> "cleanup", saved |-> TRUE, closed |-> num_input_fds,
                        freed |-> (event_buffer # NULL)]
  /\ num_input_fds' = 0
  /\ event_buffer' = IF event_buffer # NULL THEN cleanup_release(event_buffer)
                     ELSE event_buffer
  /\ UNCHANGED <<event_count, event_index, clock, hist,
                 pc, running, last_save, daemon_mode, shut>>

Next ==
  \/ main_start /\ UNCHANGED mainvars
  \/ add_event /\ UNCHANGED mainvars
  \/ calculate_apm /\ UNCHANGED mainvars
  \/ save_data /\ UNCHANGED mainvars
  \/ load_data /\ UNCHANGED mainvars
  \/ apm_stats /\ UNCHANGED mainvars

Spec == Init /\ [][Next]_vars


\* ------------------------------------------------------------ main (main.c)
\* the instants of the model count from an origin at least SAVE_INTERVAL
\* after time 0, where "time_t last_save = 0" lies
Epoch == SAVE_INTERVAL

\* the data file main finds: none, or one a complete save of a full
\* store left (all its records from the first instant)
MainFiles ==
  {NoFile, DataFile(MAGIC, VERSION, MAX_EVENTS, [k \in 1..MAX_EVENTS |-> 0])}

\* main after malloc of the buffer and signal(SIGINT/SIGTERM, handle_signal)
MainInit ==
  /\ event_buffer = FreshBuffer
  /\ event_count = 0
  /\ event_index = 0
  /\ file \in MainFiles
  /\ clock = 0
  /\ last = [op |-> "start"]
  /\ hist = FreshHist
  /\ saved = NotSaved
  /\ pc = "find"
  /\ running = 1
  /\ num_input_fds = 0
  /\ last_save = 0 - Epoch
  /\ daemon_mode \in BOOLEAN
  /\ shut = NoShut

Ended == {"exit_failure", "crashed", "done"}

\* a handler that also empties the store
handle_signal_resets ==
  /\ pc \notin Ended
  /\ running' = 0
  /\ event_count' = 0
  /\ shut' = IF shut.stop = "none" THEN [shut EXCEPT !.stop = "signal"] ELSE shut
  /\ UNCHANGED <<event_buffer, event_index, file, clock, last, hist,
                 saved, pc, num_input_fds, last_save, daemon_mode>>

\* SIGINT or SIGTERM is delivered
handle_signal ==
  /\ pc \notin Ended
  /\ running' = 0
  /\ shut' = IF shut.stop = "none" THEN [shut EXCEPT !.stop = "signal"] ELSE shut
  /\ UNCHANGED <<event_buffer, event_count, event_index, file, clock, last, hist,
                 saved, pc, num_input_fds, last_save, daemon_mode>>

\* what find_input_devices returns when it opened n devices
find_result(n) == IF n = 0 THEN -1 ELSE n

\* a test that takes only 0 for "no device"
no_devices_zero_only(r) == r = 0
\* "if (find_input_devices() <= 0)"
no_devices(r) == r <= 0

\* "if (find_input_devices() <= 0)": free the buffer and exit
find_input_devices ==
  /\ pc = "find"
  /\ \E n \in 0..MaxDevices :
       IF no_devices(find_result(n))
       THEN /\ event_buffer' = NULL
            /\ pc' = "exit_failure"
            /\ UNCHANGED num_input_fds
       ELSE /\ num_input_fds' = n
            /\ pc' = "load"
            /\ UNCHANGED event_buffer
  /\ last' = [op |-> "find"]
  /\ UNCHANGED <<event_count, event_index, file, clock, hist, saved,
                 running, last_save, daemon_mode, shut>>

\* "load_data();" before the loop
main_load ==
  /\ pc = "load"
  /\ load_data
  /\ pc' = "display"
  /\ shut' = [shut EXCEPT !.loads = Min(@ + 1, 2)]
  /\ UNCHANGED <<running, num_input_fds, last_save, daemon_mode>>

\* interactive mode: initscr() and the first display, five calculate_apm calls
initial_display ==
  /\ pc = "display"
  /\ pc' = "loop"
  /\ last' = [op |-> "display"]
  /\ shut' = [shut EXCEPT !.used = @ \/ ~daemon_mode]
  /\ UNCHANGED <<event_buffer, event_count, event_index, file, clock, hist, saved,
                 running, num_input_fds, last_save, daemon_mode>>

\* cleanup with the save moved behind the release of the buffer
cleanup_after_save_last(step) ==
  CASE step = "loop" -> "cleanup_close"
    [] step = "cleanup_close" -> "cleanup_free"
    [] step = "cleanup_free" -> "cleanup_save"
    [] step = "cleanup_save" -> "done"
\* what follows the loop: cleanup() saves, closes the devices, frees the buffer
cleanup_after(step) ==
  CASE step = "loop" -> "cleanup_save"
    [] step = "cleanup_save" -> "cleanup_close"
    [] step = "cleanup_close" -> "cleanup_free"
    [] step = "cleanup_free" -> "done"

\* a loop that never tests the flag: "while (1)"
loop_continues_always(r) == TRUE
\* the condition of "while (running)"
loop_continues(r) == r # 0

\* "while (running)"
loop_test ==
  /\ pc = "loop"
  /\ IF loop_continues(running)
     THEN pc' = "select" /\ UNCHANGED shut
     ELSE pc' = cleanup_after("loop") /\ shut' = [shut EXCEPT !.why = shut.stop]
  /\ last' = [op |-> "while"]
  /\ UNCHANGED <<event_buffer, event_count, event_index, file, clock, hist, saved,
                 running, num_input_fds, last_save, daemon_mode>>

\* select with its 100 ms timeout: interrupted (continue), failed (break),
\* devices readable, or timed out
SelectOutcomes == {"eintr", "error", "ready", "timeout"}
\* the time when select returns: no later second, or, once, SAVE_INTERVAL
\* later (input events arrive only at the Instants before that)
MaxMainTime == SAVE_INTERVAL + MaxTicks * HalfMinute
SelectTimes(t) == {t} \cup {u \in {t + SAVE_INTERVAL} : u <= MaxMainTime}
select ==
  /\ pc = "select"
  /\ \E result \in SelectOutcomes :
       /\ pc' = CASE result = "eintr" -> "loop"
                  [] result = "error" -> cleanup_after("loop")
                  [] result = "ready" -> "events"
                  [] result = "timeout" -> "getch"
       /\ shut' = IF result = "error" THEN [shut EXCEPT !.why = "select_error"]
                  ELSE [shut EXCEPT !.diff = 0]
       /\ last' = [op |-> "select", res |-> result]
  /\ \E now \in SelectTimes(clock) : clock' = now
  /\ UNCHANGED <<event_buffer, event_count, event_index, file, hist, saved,
                 running, num_input_fds, last_save, daemon_mode>>

\* struct input_event: type, code, value (0 release, 1 down, 2 repeat)
InputEvents ==
  [type : {"EV_KEY", "EV_REL"}, code : {"KEY_A", "BTN_LEFT"}, value : {0, 1, 2}]

\* a filter that takes every key event
is_action_any_key(ev) == ev.type = "EV_KEY"
\* the test on events[j] that guards add_event()
is_action(ev) ==
  \/ ev.type = "EV_KEY" /\ ev.value = 1
  \/ ev.type = "EV_KEY" /\ ev.code = "BTN_LEFT" /\ ev.value = 1

Sat(x) == IF x > 1 THEN 1 ELSE IF x < 0 - 1 THEN 0 - 1 ELSE x

\* one event of the batch read from a device: add_event() if it passes
\* the test; the out-of-bounds write of add_event may end the process
read_event ==
  /\ pc = "events"
  /\ \E ev \in InputEvents :
       /\ IF is_action(ev)
          THEN /\ add_event
               /\ pc' = IF last'.res = "crash" THEN "crashed" ELSE "events"
          ELSE /\ last' = [op |-> "skip"]
               /\ pc' = "events"
               /\ UNCHANGED <<event_buffer, event_count, event_index, file, clock,
                              hist, saved>>
       /\ shut' = [shut EXCEPT
                     !.used = @ \/ is_action(ev),
                     !.diff = Sat(@ + (IF is_action(ev) THEN 1 ELSE 0)
                                    - (IF ev.type = "EV_KEY" /\ ev.value = 1
                                       THEN 1 ELSE 0))]
  /\ UNCHANGED <<running, num_input_fds, last_save, daemon_mode>>

\* the events read are used up (the rest were releases, repeats, moves)
events_done ==
  /\ pc = "events"
  /\ pc' = "getch"
  /\ last' = [op |-> "read"]
  /\ UNCHANGED <<event_buffer, event_count, event_index, file, clock, hist, saved,
                 running, num_input_fds, last_save, daemon_mode, shut>>

\* interactive mode: getch(), 'q' or 'Q' clears running
Keys == {"q", "g", "none"}
getch ==
  /\ pc = "getch"
  /\ \E ch \in (IF daemon_mode THEN {"none"} ELSE Keys) :
       /\ running' = IF ch = "q" THEN 0 ELSE running
       /\ shut' = IF ch = "q" /\ shut.stop = "none"
                  THEN [shut EXCEPT !.stop = "quit_key"] ELSE shut
       /\ last' = [op |-> "getch", res |-> ch]
  /\ pc' = "periodic"
  /\ UNCHANGED <<event_buffer, event_count, event_index, file, clock, hist, saved,
                 num_input_fds, last_save, daemon_mode>>

\* the periodic tasks: "if (now - last_save >= 300) { save_data(); last_save
\* = now; }"; the statistics and the display only call calculate_apm
SaveFailures == {"mkdir_fail", "open_fail", "header_fail", "event_fail"}
\* a loop that reads the data file again in every iteration
after_periodic_reload(res) == "load"
\* a loop that gives up when a save fails
after_periodic_abort(res) == IF res \in SaveFailures THEN "exit_failure" ELSE "loop"
\* save_data returns nothing and main goes on to the next iteration
after_periodic(res) == "loop"

\* a test that lets exactly SAVE_INTERVAL seconds pass without a save
save_due_strict(now, saved_at) == now - saved_at > SAVE_INTERVAL
\* "if (now - last_save >= 300)"
save_due(now, saved_at) == now - saved_at >= SAVE_INTERVAL

periodic ==
  /\ pc = "periodic"
  /\ IF save_due(clock, last_save)
     THEN /\ save_data
          /\ last_save' = clock
          /\ pc' = after_periodic(last'.res)
          /\ shut' = [shut EXCEPT !.used = TRUE, !.psaves = Min(@ + 1, 2)]
     ELSE /\ last' = [op |-> "periodic"]
          /\ pc' = after_periodic("none")
          /\ shut' = [shut EXCEPT !.used = TRUE]
          /\ UNCHANGED <<event_buffer, event_count, event_index, file, clock, hist,
                         saved, last_save>>
  /\ UNCHANGED <<running, num_input_fds, daemon_mode>>

\* cleanup(): "save_data();"
cleanup_save ==
  /\ pc = "cleanup_save"
  /\ save_data
  /\ shut' = [shut EXCEPT !.saves = @ + 1,
                          !.used = TRUE,
                          !.buf = (event_buffer # NULL),
                          !.fds = num_input_fds]
  /\ pc' = cleanup_after("cleanup_save")
  /\ UNCHANGED <<running, num_input_fds, last_save, daemon_mode>>

\* cleanup(): close every input_fds[i]; num_input_fds = 0
cleanup_close ==
  /\ pc = "cleanup_close"
  /\ num_input_fds' = 0
  /\ pc' = cleanup_after("cleanup_close")
  /\ last' = [op |-> "close"]
  /\ UNCHANGED <<event_buffer, event_count, event_index, file, clock, hist, saved,
                 running, last_save, daemon_mode, shut>>

\* cleanup(): free(event_buffer); event_buffer = NULL
cleanup_free ==
  /\ pc = "cleanup_free"
  /\ event_buffer' = IF event_buffer # NULL THEN cleanup_release(event_buffer)
                     ELSE event_buffer
  /\ pc' = cleanup_after("cleanup_free")
  /\ last' = [op |-> "free"]
  /\ UNCHANGED <<event_count, event_index, file, clock, hist, saved,
                 running, num_input_fds, last_save, daemon_mode, shut>>

\* cleanup() called once more after main's own call
cleanup_again ==
  /\ pc = "done"
  /\ cleanup

MainNext ==
  \/ handle_signal
  \/ find_input_devices
  \/ main_load
  \/ initial_display
  \/ loop_test
  \/ select
  \/ read_event
  \/ events_done
  \/ getch
  \/ periodic
  \/ cleanup_save
  \/ cleanup_close
  \/ cleanup_free
  \/ cleanup_again

MainSpec == MainInit /\ [][MainNext]_vars

\* main is a running process: the loop test, select (100 ms timeout), the
\* end of a batch of input events (read returns at most 64 of them), getch
\* (100 ms timeout), the periodic tasks and the steps of cleanup are each
\* taken when they stay possible.  Signals, keys and input events are the
\* environment's and need not come.
MainFairSpec ==
  /\ MainSpec
  /\ WF_vars(find_input_devices) /\ WF_vars(main_load) /\ WF_vars(initial_display)
  /\ WF_vars(loop_test) /\ WF_vars(select) /\ WF_vars(events_done)
  /\ WF_vars(getch) /\ WF_vars(periodic)
  /\ WF_vars(cleanup_save) /\ WF_vars(cleanup_close) /\ WF_vars(cleanup_free)


\* ------------------------------------------------------------------ claims
View == ChronView(event_buffer, event_count, event_index)

C2_CapacityBound ==
  /\ event_count \in 0..MAX_EVENTS
  /\ hist.nadds > MAX_EVENTS => event_count = MAX_EVENTS

C2_Witness ==
  /\ last.op = "add"
  /\ hist.nadds > MAX_EVENTS
  /\ event_count = MAX_EVENTS


\* the file on disk has a header that load_data accepts
GoodHeader(f) == f.exists /\ f.hdr /\ f.magic = MAGIC /\ f.version = VERSION

C4_KeepsMostRecent ==
  (/\ last.op = "load" /\ last.res = "loaded"
   /\ GoodHeader(file)
   /\ ToInt(file.num_events) > MAX_EVENTS
   /\ Len(file.body) = file.num_events)
    => /\ event_count = MAX_EVENTS
       /\ View = LastN(file.body, MAX_EVENTS)

\* the records the store holds that lie in the window ending at t
InWindow(minutes, t) ==
  {k \in 1..Len(View) : View[k] >= t - minutes * SecondsPerMinute}

C6_EmptyStore ==
  (last.op = "apm" /\ event_count = 0)
    => /\ RatioEq(last.val, Zero)
       /\ last.read = {}

C6_Witness ==
  /\ last.op = "apm" /\ event_count = 0
  /\ last.minutes = MaxWindow
  /\ last.val = Zero

\* C7: bad header.  A load of a file whose magic is not MAGIC or whose
\* version is not VERSION is rejected and leaves buffer, count and cursor as
\* they were.
C7_BadHeader ==
  [][(/\ last'.op = "load"
      /\ file.exists /\ file.hdr
      /\ (file.magic # MAGIC \/ file.version # VERSION))
       => /\ last'.res \in {"bad_magic", "bad_version"}
          /\ UNCHANGED store]_vars

C7_Witness ==
  /\ last.op = "load" /\ last.res = "bad_version"
  /\ event_count = MAX_EVENTS

\* C8: missing file.  A load with no file on disk returns without an error
\* and leaves buffer, count and cursor as they were.
C8_MissingFile ==
  [][(last'.op = "load" /\ ~file.exists)
       => /\ last'.res = "no_file"
          /\ UNCHANGED store]_vars

C8_Witness ==
  /\ last.op = "load" /\ last.res = "no_file"
  /\ event_count = 0 /\ event_index = 0
  /\ event_buffer = FreshBuffer

C10_IdempotentSave ==
  [][(/\ last.op = "save" /\ last.res = "ok"
      /\ last'.op = "save" /\ last'.res = "ok")
       => file' = file]_vars

C10_Witness ==
  /\ last.op = "save" /\ last.res = "ok" /\ last.again
  /\ event_count = MAX_EVENTS
  /\ file.body = View


\* C11: save format.  A complete save of a store holding n > 0 records
\* leaves a file with magic MAGIC, version VERSION and num_events = n,
\* followed by exactly n entries: the records the store holds, oldest first.
C11_SaveFormat ==
  [][(last'.op = "save" /\ last'.res = "ok")
       => /\ event_count > 0
          /\ file' = DataFile(MAGIC, VERSION, event_count, hist.held)
          /\ Len(file'.body) = event_count]_vars

\* C12: save of an empty store.  With event_count = 0 save_data writes
\* nothing: a file on disk stays as it is and none is created.
C12_EmptySaveNoop ==
  [][(last'.op = "save" /\ event_count = 0)
       => /\ last'.res = "nothing"
          /\ file' = file]_vars

\* an empty store saved over a data file that holds records
C12_Witness ==
  /\ last.op = "save" /\ last.res = "nothing"
  /\ event_count = 0
  /\ GoodHeader(file) /\ Len(file.body) = MAX_EVENTS

\* C14: index range.  In every reachable state event_index is a slot of
\* the buffer (0..MAX_EVENTS-1) and event_count is in 0..MAX_EVENTS, so
\* add_event's write lands inside the buffer.
C14_IndexRange ==
  /\ event_index \in Slots
  /\ event_count \in 0..MAX_EVENTS

\* C15: cursor after load.  A successful load that stored n records leaves
\* event_count = n and event_index = n mod MAX_EVENTS: n below capacity,
\* 0 at capacity.
C15_CursorAfterLoad ==
  (last.op = "load" /\ last.res = "loaded")
    => /\ event_count = Min(Len(file.body), Min(file.num_events, MAX_EVENTS))
       /\ event_index = event_count % MAX_EVENTS

\* C16: one add_event step.  The timestamp goes to slot event_index and no
\* other slot changes, event_index becomes (event_index + 1) mod MAX_EVENTS,
\* event_count grows by one exactly when it was below MAX_EVENTS; and n
\* calls on an empty store give event_count = min(n, MAX_EVENTS) and
\* event_index = n mod MAX_EVENTS.
C16_RecordStep ==
  [][last'.op = "add"
       => /\ event_index \in Slots
          /\ event_buffer' = [event_buffer EXCEPT ![event_index] = clock']
          /\ event_index' = (event_index + 1) % MAX_EVENTS
          /\ event_count' = IF event_count < MAX_EVENTS
                            THEN event_count + 1 ELSE event_count
          /\ (hist'.from_empty /\ hist'.nadds < MaxAdds)
               => /\ event_count' = Min(hist'.nadds, MAX_EVENTS)
                  /\ event_index' = hist'.nadds % MAX_EVENTS]_vars

\* C17: overwrite-oldest after any history.  Whenever the store is full,
\* however it got full, the next add_event drops the oldest record and
\* keeps the others: the view becomes the old view without its first
\* element, followed by the new timestamp.
C17_OverwriteOldest ==
  [][(last'.op = "add" /\ event_count = MAX_EVENTS)
       => View' = Append(Tail(View), clock')]_vars

\* C18: read count.  For every declared num_events (a uint32), above
\* MAX_EVENTS and above the int range included, load_data sets out to
\* read exactly min(num_events, MAX_EVENTS) entries.  (A refusal of
\* memory for a request that fits is left aside.)
C18_ReadCount ==
  (/\ last.op = "load"
   /\ last.res \in {"loaded", "no_memory"}
   /\ last.res = "no_memory" => file.num_events >= 2^(IntBits - 1))
    => last.want = Min(file.num_events, MAX_EVENTS)

\* C19: reader contract.  Both readers of the data file, load_data and
\* the statistics utility, reject a header whose magic or version is not
\* the known one, and neither rejects a file whose body is shorter than
\* its header declares.  (A refusal of memory is left aside.)
C19_ReaderContract ==
  /\ (last.op = "load" /\ file.exists /\ file.hdr)
       => /\ ~GoodHeader(file) => last.res \in {"bad_magic", "bad_version"}
          /\ (GoodHeader(file) /\ Len(file.body) < file.num_events
                /\ last.res # "no_memory")
               => last.res = "loaded"
  /\ (last.op = "stats" /\ file.exists /\ file.hdr)
       => /\ ~GoodHeader(file) => last.res = "invalid_format"
          /\ (GoodHeader(file) /\ Len(file.body) < file.num_events
                /\ last.res # "cannot_allocate")
               => last.res = "ok"

\* C20: trailing window.  calculate_apm_with_time(minutes, t) counts only
\* the held records with timestamp in [t - minutes*60, t]: a record later
\* than the reference time t is not counted.
C20_TrailingWindow ==
  (last.op = "apm" /\ event_count > 0)
    => RatioEq(last.val,
               Ratio(Cardinality({k \in InWindow(last.minutes, last.t) :
                                    View[k] <= last.t}),
                     last.minutes))

\* C13: final save on shutdown.  However the main loop ends (a signal
\* cleared running, 'q' was pressed, select failed with an error other
\* than EINTR), cleanup calls save_data exactly once, and it does so while
\* the buffer is still allocated and the devices are still open; no part
\* of cleanup runs before the loop has ended.
C13_FinalSave ==
  /\ pc \in {"find", "load", "display", "loop", "select", "events", "getch", "periodic"}
       => shut.why = "none" /\ shut.saves = 0
  /\ pc = "cleanup_save"
       => /\ shut.why \in {"signal", "quit_key", "select_error"}
          /\ shut.saves = 0
          /\ event_buffer # NULL /\ num_input_fds > 0
  /\ pc \in {"cleanup_close", "cleanup_free", "done"}
       => /\ shut.why \in {"signal", "quit_key", "select_error"}
          /\ shut.saves = 1 /\ shut.buf /\ shut.fds > 0

\* main has returned after 'q' and the final save wrote the recorded events
C13_Witness ==
  /\ pc = "done" /\ shut.why = "quit_key" /\ shut.saves = 1
  /\ event_buffer = NULL /\ num_input_fds = 0
  /\ GoodHeader(file) /\ file.body = hist.held /\ hist.nadds > 0

\* C23: read-only operations.  A call of calculate_apm, for any window
\* and reference time, and a call of save_data, whether it completes,
\* fails or finds nothing to save, leave event_count, event_index and
\* every slot of the buffer as they were.
C23_ReadOnly ==
  [][last'.op \in {"apm", "save"} => UNCHANGED store]_vars

\* a save that stopped in its write loop, on a full store that has wrapped
C23_Witness ==
  /\ last.op = "save" /\ last.res = "event_fail"
  /\ event_count = MAX_EVENTS /\ hist.from_empty /\ hist.nadds > MAX_EVENTS

C28_InterruptedSave ==
  (last.op = "load" /\ saved.part /\ last.res # "no_memory")
    => /\ last.res = "loaded"
       /\ View = SubSeq(saved.held, 1, Len(file.body))

\* the slots save_data writes out, in order
SaveSlots == [i \in 1..Min(event_count, MAX_EVENTS) |->
                SaveIdx(i - 1, event_count, event_index)]
\* the slots calculate_apm_with_time scans, in order
ApmSlots == apm_slots(event_count, event_index)
SlotCount(q, j) == Cardinality({k \in 1..Len(q) : q[k] = j})

C30_CleanupIdempotent ==
  [][/\ (pc' = "done" /\ pc # "done")
          => event_buffer' = NULL /\ num_input_fds' = 0
     /\ last'.op = "cleanup"
          => /\ ~last'.saved /\ last'.closed = 0 /\ ~last'.freed
             /\ file' = file
             /\ event_buffer' = NULL /\ num_input_fds' = 0
             /\ UNCHANGED <<event_count, event_index>>]_vars

\* a second cleanup, after main's cleanup saved the store's records
C30_Witness ==
  /\ last.op = "cleanup" /\ pc = "done"
  /\ shut.saves = 1 /\ shut.fds > 0 /\ shut.buf
  /\ event_buffer = NULL /\ event_count > 0
  /\ saved.valid /\ file.body # <<>>

\* C21: lifecycle.  main calls load_data at most once, with the buffer
\* allocated and before any add_event, calculate_apm or save_data; any
\* other change of the store's count, cursor or slots is made by add_event
\* (the buffer itself is released only on the way out).
C21_Lifecycle ==
  [][/\ shut'.loads # shut.loads
          => /\ shut.loads = 0 /\ ~shut.used
             /\ event_buffer # NULL
             /\ hist.nadds = 0 /\ saved = NotSaved
     /\ (store' # store /\ shut'.loads = shut.loads)
          => \/ last'.op = "add"
             \/ /\ event_buffer' = NULL
                /\ UNCHANGED <<event_count, event_index>>
                /\ pc' \in {"exit_failure", "done"}]_vars

\* events were recorded into a store that main loaded from the data file
C21_Witness ==
  /\ shut.loads = 1 /\ shut.used
  /\ last.op = "add" /\ last.res = "stored"
  /\ ~hist.from_empty /\ hist.nadds > 0
  /\ event_count = MAX_EVENTS

SaveFailed == last.op = "save" /\ last.res \in SaveFailures

\* C22: a failed save is contained.  When the periodic save fails (the
\* directory cannot be made, the file cannot be opened, a write fails)
\* the store is unchanged and main goes on with its loop: the process has
\* not ended and running is as it was.
C22_SaveFailureContained ==
  [][(pc = "periodic" /\ last'.op = "save" /\ last'.res \in SaveFailures)
       => /\ UNCHANGED store
          /\ pc' = "loop"
          /\ running' = running]_vars

\* an event recorded in an iteration after the one whose save failed in
\* its write loop
C22_Witness ==
  /\ pc = "events" /\ last.op = "add" /\ last.res = "stored"
  /\ shut.psaves = 1 /\ saved.part
  /\ Len(file.body) < file.num_events

C27_PeriodicSchedule ==
  [][(pc = "periodic" /\ pc' # "periodic")
       => /\ (last'.op = "save") <=> (clock - last_save >= 300)
          /\ last'.op = "save" => last_save' = clock /\ clock' = clock
          /\ last'.op # "save" => last_save' = last_save
          /\ (last'.op = "save" /\ shut.psaves > 0) => clock - last_save >= 300]_vars

\* a second periodic save, exactly SAVE_INTERVAL after the first, which
\* found nothing to save
C27_Witness ==
  /\ pc = "loop" /\ last.op = "save" /\ last.res = "nothing"
  /\ shut.psaves = 2
  /\ last_save = SAVE_INTERVAL

\* a data file with a valid header that declares n <= MAX_EVENTS entries,
\* all of them present
WellFormed(f) ==
  /\ GoodHeader(f)
  /\ f.num_events <= MAX_EVENTS
  /\ Len(f.body) >= f.num_events

\* C34: the statistics utility agrees with the tracker.  When load_data has
\* just loaded a well-formed file (valid magic, version 1, declared count
\* n <= MAX_EVENTS, n entries present), then for every window and every
\* reference time calculate_apm_from_data over the n entries read from the
\* file gives the same rate as calculate_apm_with_time over the store that
\* load_data built; a run of the utility on that file ends "ok" with these
\* rates.
C34_StatsAgree ==
  /\ (last.op = "load" /\ last.res = "loaded" /\ WellFormed(file))
       => \A w \in Windows, t \in RefTimes :
            RatioEq(calculate_apm_from_data(stats_events(file), file.num_events, w, t),
                    calculate_apm_with_time(event_buffer, event_count, event_index,
                                            w, t).val)
  /\ (last.op = "stats" /\ last.res = "ok" /\ WellFormed(file) /\ event_buffer # NULL)
       => LET r == load_result(file, event_buffer, event_count, event_index, TRUE)
          IN \A w \in Windows :
               RatioEq(last.rates[w],
                       calculate_apm_with_time(r.st.buf, r.st.cnt, r.st.idx, w, clock).val)

\* a full well-formed file loaded whose newest entry lies exactly on the
\* cutoff of a window and whose oldest lies before it
C34_Witness ==
  /\ last.op = "load" /\ last.res = "loaded" /\ WellFormed(file)
  /\ file.num_events = MAX_EVENTS
  /\ \E w \in Windows, t \in RefTimes :
       /\ file.body[MAX_EVENTS] = t - w * SecondsPerMinute
       /\ file.body[1] < t - w * SecondsPerMinute
       /\ calculate_apm_with_time(event_buffer, event_count, event_index,
                                  w, t).val = Ratio(1, w)

C36_ViewSorted ==
  (event_buffer # NULL /\ hist.ordered)
    => /\ NonDecreasing(View)
       /\ (hist.nadds > 0 /\ event_count > 0) => View[Len(View)] = clock

\* C31: no input source.  The step of main that runs find_input_devices
\* ends the process with failure exactly when no device was opened; the
\* process then has made no load_data, no add_event, no calculate_apm and no
\* save_data call, the data file is the one it found, and nothing follows.
C31_NoInputSource ==
  [][/\ (pc = "find" /\ pc' # "find")
          => /\ (pc' = "exit_failure") <=> (num_input_fds' = 0)
             /\ pc' \in {"exit_failure", "load"}
             /\ file' = file
     /\ (pc' = "exit_failure")
          => /\ file' = file
             /\ shut'.loads = 0 /\ shut'.saves = 0 /\ shut'.psaves = 0
             /\ ~shut'.used
             /\ saved' = NotSaved /\ hist' = FreshHist
             /\ event_count' = 0 /\ event_index' = 0
     /\ (pc = "exit_failure") => pc' = "exit_failure"]_vars

\* the process ended with failure beside a full data file, its buffer freed
C31_Witness ==
  /\ pc = "exit_failure"
  /\ num_input_fds = 0 /\ event_buffer = NULL
  /\ WellFormed(file) /\ file.num_events = MAX_EVENTS
  /\ shut.loads = 0 /\ saved = NotSaved

\* C33: signal handler isolation.  A SIGINT or SIGTERM delivered between any
\* two steps of main (before or after an add_event, a calculate_apm, a
\* periodic or final save, at the loop test, in cleanup) clears running and
\* changes nothing else: the buffer, event_count, event_index, the data
\* file, the clock, the descriptors, last_save and the position of main are
\* as before, so the store a step of the loop finds after the handler is
\* the store the previous step left.
C33_HandlerIsolation ==
  [][(shut.stop = "none" /\ shut'.stop = "signal")
       => /\ running' = 0
          /\ UNCHANGED <<event_buffer, event_count, event_index>>
          /\ UNCHANGED <<file, clock, last, hist, saved>>
          /\ UNCHANGED <<pc, num_input_fds, last_save, daemon_mode>>]_vars

\* a signal was delivered during a batch of input events, after an
\* add_event stored a record; the record is in the store
C33_Witness ==
  /\ shut.stop = "signal" /\ running = 0
  /\ pc = "events" /\ last.op = "add" /\ last.res = "stored"
  /\ event_count > 0 /\ View[Len(View)] = clock

\* the positions of main inside "while (running) { ... }"
InLoop == {"loop", "select", "events", "getch", "periodic"}

====
